---- MODULE Spec2Model ----
(***************************************************************************)
(* Model of the USDA export-sales dashboard: the ESR download loop         *)
(* (usda_api.get_esr_exports), the two seasonal views of esr_views.py      *)
(* (seasonal_line_plot, seasonal_commitments_plot) and the weeks-left      *)
(* helper of streamlitapp.py (weeks_left_cmy).                             *)
(*                                                                         *)
(* A data frame is a sequence of rows plus its set of column names; a row  *)
(* is a function from column name to value.  A date (pandas Timestamp at   *)
(* midnight) is the triple <<year, month, day>>.  A plotted y value is the *)
(* exact fraction [num, den], so that "/ 1_000" is visible in the figure.  *)
(***************************************************************************)
EXTENDS Integers, Sequences, FiniteSets, TLC

VARIABLES pc, year, end_year, nframes, columns, df, fig

vars == <<pc, year, end_year, nframes, columns, df, fig>>

---------------------------------------------------------------------------
(* Bounds of the explored inputs *)

\* rows the API returns for the newest marketing year
MaxBatch == 3
\* largest `years` argument handed to seasonal_line_plot
MaxYearsArg == 5
\* the newest marketing year the API has data for
NewestYear == 2027

\* streamlitapp.py: start_year = 2021
FirstYear == 2021

StartYears == FirstYear .. NewestYear
EndYears == {NewestYear - 1, NewestYear}

\* my_start_month arguments: 8 is the default, 1 and 12 the ends of the valid
\* range, 0 and 13 the out-of-range configurations
StartMonths == {0, 1, 8, 12, 13}
YearsArgs == 0 .. MaxYearsArg
ValueCols == {"accumulatedExports", "outstandingSales", "Cancel", "netSalesTypo"}
\* wasde_export argument: NoWasde stands for None
NoWasde == -1
WasdeArgs == {NoWasde, 12500000}
\* wall-clock readings of datetime.today()
Todays == {<<2026, 7, 15>>, <<2026, 10, 28>>, <<2027, 9, 1>>}

---------------------------------------------------------------------------
(* Dates *)

DateLT(a, b) ==
    \/ a[1] < b[1]
    \/ a[1] = b[1] /\ a[2] < b[2]
    \/ a[1] = b[1] /\ a[2] = b[2] /\ a[3] < b[3]

DateLE(a, b) == a = b \/ DateLT(a, b)

IsLeap(y) == (y % 4 = 0 /\ y % 100 # 0) \/ y % 400 = 0

DaysBeforeYear(y) == (y - 1) * 365 + (y - 1) \div 4 - (y - 1) \div 100 + (y - 1) \div 400

DaysBeforeMonth(y, m) ==
    <<0, 31, 59, 90, 120, 151, 181, 212, 243, 273, 304, 334>>[m]
      + (IF m > 2 /\ IsLeap(y) THEN 1 ELSE 0)

\* proleptic Gregorian ordinal of a date, what datetime subtraction works on
Ordinal(d) == DaysBeforeYear(d[1]) + DaysBeforeMonth(d[1], d[2]) + d[3]

---------------------------------------------------------------------------
(* Python helpers *)

Min2(a, b) == IF a < b THEN a ELSE b
Max2(a, b) == IF a > b THEN a ELSE b

\* variant of PyFrom: a negative start that reaches before the first element
\* yields nothing instead of the whole list
PyFromStrict(s, i) ==
    LET n == Len(s)
    IN  IF i < 0 /\ n + i < 0 THEN <<>>
        ELSE SubSeq(s, (IF i < 0 THEN n + i ELSE Min2(i, n)) + 1, n)

\* s[i:] with Python's index normalisation
PyFrom(s, i) ==
    LET n == Len(s)
        k == IF i < 0 THEN Max2(n + i, 0) ELSE Min2(i, n)
    IN  SubSeq(s, k + 1, n)

\* s[:i]
PyTo(s, i) ==
    LET n == Len(s)
        k == IF i < 0 THEN Max2(n + i, 0) ELSE Min2(i, n)
    IN  SubSeq(s, 1, k)

\* s[::step]
PyStep(s, step) ==
    [k \in 1 .. ((Len(s) + step - 1) \div step) |-> s[(k - 1) * step + 1]]

RECURSIVE SortedInts(_)
\* sorted(iterable of ints)
SortedInts(S) ==
    IF S = {} THEN <<>>
    ELSE LET m == CHOOSE x \in S : \A y \in S : x <= y
         IN  <<m>> \o SortedInts(S \ {m})

RECURSIVE SeqMax(_)
\* Series.max() of a non-empty integer column
SeqMax(s) ==
    IF Len(s) = 1 THEN s[1] ELSE Max2(s[1], SeqMax(Tail(s)))

---------------------------------------------------------------------------
(* The ESR API and get_esr_exports *)

\* keys of one ESR JSON record that the views and build_last_week read
ApiColumns ==
    {"weekEndingDate", "countryCode", "weeklyExports", "grossNewSales",
     "currentMYNetSales", "nextMYNetSales", "currentMYTotalCommitment",
     "accumulatedExports", "outstandingSales", "nextMYOutstandingSales"}

\* the frame's columns: the keys of the API's records, with or without a
\* marketing-year key
ColumnSets == {ApiColumns, ApiColumns \cup {"MY"}}

\* one record of the API's answer for market year y: the i-th destination,
\* its marketing-year key `label` (kept only if the API sends one)
ApiRow(y, i, label, date, cols) ==
    LET full == [MY |-> label,
                 weekEndingDate |-> date,
                 countryCode |-> i,
                 weeklyExports |-> (y - 2020) + 30 * i,
                 grossNewSales |-> 900 + 40 * i,
                 currentMYNetSales |-> 700 + 100 * i,
                 nextMYNetSales |-> 10 * i,
                 currentMYTotalCommitment |-> 100 * (y - 2000) + 50 + 2200 * i,
                 accumulatedExports |-> 100 * (y - 2000) + 1500 * i,
                 outstandingSales |-> 50 + 700 * i,
                 nextMYOutstandingSales |-> 5 * i]
    IN  [c \in cols |-> full[c]]

\* week-ending dates the API reports for the newest marketing year
NewestDates == {<<NewestYear - 1, 8, 4>>, <<NewestYear, 7, 28>>}

\* marketing-year keys the API may put on a record of the newest year
NewestLabels(cols) == IF "MY" \in cols THEN {NewestYear, NewestYear + 1} ELSE {NewestYear}

\* r.json() for .../marketYear/{y}: a closed year answers with its final
\* weekly record, the newest year with up to MaxBatch records in any order
ApiBatches(y, cols) ==
    IF y < NewestYear
    THEN {<<ApiRow(y, 1, y, <<y, 7, 28>>, cols)>>}
    ELSE UNION {
           {[i \in 1 .. n |-> ApiRow(y, i, f[i][1], f[i][2], cols)] :
              f \in [1 .. n -> NewestLabels(cols) \X NewestDates]} :
           n \in 0 .. MaxBatch}

\* a figure / call result with nothing in it
NoFig ==
    [fn |-> "none", err |-> "none", value_col |-> "", my_start_month |-> 0,
     years_arg |-> 0, weekly |-> <<>>, CMY |-> 0, drawn |-> <<>>,
     bars |-> <<>>, lines |-> <<>>, hline |-> NoWasde, xmax |-> 0,
     xticks |-> <<>>, xticklabels |-> <<>>, today |-> <<0, 0, 0>>,
     latest_week_date |-> <<0, 0, 0>>, mkt_end_year |-> 0, weeks_left |-> 0,
     selected_date |-> <<0, 0, 0>>, countries |-> <<>>, df_totals |-> <<>>,
     last_week |-> <<>>, commodity |-> "", psd_queried |-> <<>>]

\* the call raised `e`
Raised(fn, e) == [NoFig EXCEPT !.fn = fn, !.err = e]

\* one iteration of the loop of get_esr_exports: request, raise_for_status,
\* dfs.append(pd.DataFrame(r.json()))
FetchYear ==
    /\ pc = "fetch"
    /\ year <= end_year
    /\ \E batch \in ApiBatches(year, columns) :
         df' = df \o batch
    /\ nframes' = nframes + 1
    /\ year' = year + 1
    /\ UNCHANGED <<pc, end_year, columns, fig>>

\* r.raise_for_status() raises on an HTTP error status
FetchHttpError ==
    /\ pc = "fetch"
    /\ year <= end_year
    /\ pc' = "failed"
    /\ fig' = Raised("get_esr_exports", "HTTPError")
    /\ UNCHANGED <<year, end_year, nframes, columns, df>>

\* after the loop: pd.concat(dfs), df["weekEndingDate"] = pd.to_datetime(...)
\* pd.concat of no frames raises ValueError; frames built from empty answers
\* have no columns, so the weekEndingDate lookup raises KeyError
ConcatReturn ==
    /\ pc = "fetch"
    /\ year > end_year
    /\ IF nframes = 0
       THEN pc' = "failed" /\ fig' = Raised("get_esr_exports", "ValueError")
       ELSE IF df = <<>>
       THEN pc' = "failed" /\ fig' = Raised("get_esr_exports", "KeyError")
       ELSE pc' = "returned" /\ fig' = [NoFig EXCEPT !.fn = "get_esr_exports"]
    /\ UNCHANGED <<year, end_year, nframes, columns, df>>

\* the script's statement after load_esr:
\* df["Cancel"] = df["grossNewSales"] - df["currentMYNetSales"]
AddCancel ==
    /\ pc = "returned"
    /\ IF {"grossNewSales", "currentMYNetSales"} \subseteq columns
       THEN /\ columns' = columns \cup {"Cancel"}
            /\ df' = [i \in DOMAIN df |->
                        [c \in DOMAIN df[i] \cup {"Cancel"} |->
                           IF c = "Cancel"
                           THEN df[i]["grossNewSales"] - df[i]["currentMYNetSales"]
                           ELSE df[i][c]]]
            /\ pc' = "loaded"
            /\ fig' = fig
       ELSE /\ pc' = "failed"
            /\ fig' = Raised("script", "KeyError")
            /\ UNCHANGED <<columns, df>>
    /\ UNCHANGED <<year, end_year, nframes>>

---------------------------------------------------------------------------
(* The weekly table shared by both seasonal views *)

Range(s) == {s[i] : i \in DOMAIN s}

\* order of the (MY, weekEndingDate) sort keys
KeyLT(a, b) ==
    \/ a["MY"] < b["MY"]
    \/ a["MY"] = b["MY"] /\ DateLT(a["weekEndingDate"], b["weekEndingDate"])

\* variant of ColSum: the group keeps its first row's value (.first())
ColSumFirst(data, my, date, c) ==
    LET idx == {i \in DOMAIN data :
                  data[i]["MY"] = my /\ data[i]["weekEndingDate"] = date}
    IN  IF idx = {} THEN 0
        ELSE data[CHOOSE i \in idx : \A j \in idx : i <= j][c]

RECURSIVE ColSum(_, _, _, _)
\* the sum of column c over the rows of `data` in group (my, date)
ColSum(data, my, date, c) ==
    IF data = <<>> THEN 0
    ELSE (IF Head(data)["MY"] = my /\ Head(data)["weekEndingDate"] = date
          THEN Head(data)[c] ELSE 0)
         + ColSum(Tail(data), my, date, c)

RECURSIVE GroupRows(_, _, _)
\* the groups `keys`, smallest key first, each with its summed columns
GroupRows(data, keys, cols) ==
    IF keys = {} THEN <<>>
    ELSE LET k == CHOOSE x \in keys : \A y \in keys : x = y \/ KeyLT(x, y)
             row == [c \in {"MY", "weekEndingDate"} \cup cols |->
                       IF c \in {"MY", "weekEndingDate"} THEN k[c]
                       ELSE ColSum(data, k["MY"], k["weekEndingDate"], c)]
         IN  <<row>> \o GroupRows(data, keys \ {k}, cols)

\* data.groupby(["MY", "weekEndingDate"], as_index=False)[cols].sum():
\* one row per distinct key, keys in sorted order
GroupBySum(data, cols) ==
    GroupRows(data,
              {[MY |-> r["MY"], weekEndingDate |-> r["weekEndingDate"]] : r \in Range(data)},
              cols)

RECURSIVE InsertSorted(_, _)
\* r placed after the rows that do not sort after it (stable)
InsertSorted(sorted, r) ==
    IF sorted = <<>> THEN <<r>>
    ELSE IF KeyLT(r, Head(sorted)) THEN <<r>> \o sorted
    ELSE <<Head(sorted)>> \o InsertSorted(Tail(sorted), r)

RECURSIVE SortValues(_)
\* frame.sort_values(["MY", "weekEndingDate"])
SortValues(frame) ==
    IF frame = <<>> THEN <<>>
    ELSE InsertSorted(SortValues(SubSeq(frame, 1, Len(frame) - 1)), frame[Len(frame)])

\* variant of CumCount: the count runs over the whole frame, not per MY
CumCountWholeFrame(weekly, i) == i - 1

\* weekly.groupby("MY").cumcount() for the row at position i
CumCount(weekly, i) ==
    Cardinality({j \in 1 .. i - 1 : weekly[j]["MY"] = weekly[i]["MY"]})

\* weekly["MktingWeek"] = weekly.groupby("MY").cumcount() + 1
WithMktingWeek(weekly) ==
    [i \in DOMAIN weekly |->
       [c \in DOMAIN weekly[i] \cup {"MktingWeek"} |->
          IF c = "MktingWeek" THEN CumCount(weekly, i) + 1 ELSE weekly[i][c]]]

\* the aggregated, sorted, week-indexed table both views build first
WeeklyTable(data, cols) == WithMktingWeek(SortValues(GroupBySum(data, cols)))

\* weekly["weekEndingDate"].max() of a non-empty table
LatestDate(weekly) ==
    CHOOSE d \in {r["weekEndingDate"] : r \in Range(weekly)} :
      \A r \in Range(weekly) : DateLE(r["weekEndingDate"], d)

\* Series.mode(): the most frequent values, ascending
Mode(s) ==
    LET count(v) == Cardinality({i \in DOMAIN s : s[i] = v})
    IN  SortedInts({v \in Range(s) : \A w \in Range(s) : count(w) <= count(v)})

\* weekly.loc[weekly["weekEndingDate"] == latest_date, "MY"]
MYsAtLatest(weekly) ==
    LET latest == LatestDate(weekly)
        AtLatest(r) == r["weekEndingDate"] = latest
        sel == SelectSeq(weekly, AtLatest)
    IN  [i \in DOMAIN sel |-> sel[i]["MY"]]

\* CMY = int(....mode().iloc[0]) of a non-empty table
CurrentMY(weekly) == Mode(MYsAtLatest(weekly))[1]

\* weekly[weekly["MY"] == y]
RowsOfMY(weekly, y) ==
    LET InMY(r) == r["MY"] = y
    IN  SelectSeq(weekly, InMY)

\* the column c of a frame, as a sequence
Col(frame, c) == [i \in DOMAIN frame |-> frame[i][c]]

---------------------------------------------------------------------------
(* The x axis both views label by month *)

Months == <<"Jan", "Feb", "Mar", "Apr", "May", "Jun", "Jul", "Aug", "Sep", "Oct", "Nov", "Dec">>

\* ordered = months[my_start_month-1:] + months[:my_start_month-1]
OrderedMonths(my_start_month) ==
    PyFrom(Months, my_start_month - 1) \o PyTo(Months, my_start_month - 1)

\* xmax = int(max(52, weekly["MktingWeek"].max()))
XMax(weekly) == Max2(52, SeqMax(Col(weekly, "MktingWeek")))

\* month_labels = [ordered[min((w - 1)//4, 11)] for w in weeks]
MonthLabels(my_start_month, xmax) ==
    [w \in 1 .. xmax |-> OrderedMonths(my_start_month)[Min2((w - 1) \div 4, 11) + 1]]

\* ax.set_xticks(weeks[::4])
XTicks(xmax) == PyStep([w \in 1 .. xmax |-> w], 4)

\* ax.set_xticklabels(month_labels[::4])
XTickLabels(my_start_month, xmax) == PyStep(MonthLabels(my_start_month, xmax), 4)

---------------------------------------------------------------------------
(* seasonal_line_plot *)

\* v / d as an exact fraction
Frac(v, d) == [num |-> v, den |-> d]

\* variant of LineSeries: the values are plotted as they are
LineSeriesRaw(d, value_col) == [i \in DOMAIN d |-> Frac(d[i][value_col], 1)]

\* series = d[value_col] / 1_000  # display in thousands
LineSeries(d, value_col) == [i \in DOMAIN d |-> Frac(d[i][value_col], 1000)]

\* variant of the line plot's year window: one year more than asked
PlotYearsOneMore(weekly, CMY, years) ==
    PyFrom(SortedInts({y \in Range(Col(weekly, "MY")) : y <= CMY}), -(years + 1))

\* variant of PlotYears: the years are not limited to those up to CMY
PlotYearsNoLimit(weekly, CMY, years) ==
    PyFrom(SortedInts(Range(Col(weekly, "MY"))), -years)

\* plot_years = sorted([y for y in weekly["MY"].unique() if y <= CMY])[-years:]
PlotYears(weekly, CMY, years) ==
    PyFrom(SortedInts({y \in Range(Col(weekly, "MY")) : y <= CMY}), -years)

\* one pass of the plotting loop: ax.plot(d["MktingWeek"], series) and the
\* ax.text label at d["MktingWeek"].max() + 0.3, the end of the line
LineOf(weekly, y, value_col) ==
    LET d == RowsOfMY(weekly, y)
        series == LineSeries(d, value_col)
    IN  [MY |-> y,
         x |-> Col(d, "MktingWeek"),
         y |-> series,
         text_x |-> Frac(10 * SeqMax(Col(d, "MktingWeek")) + 3, 10),
         text_y |-> series[Len(series)]]

\* the figure seasonal_line_plot returns, or the exception it raises
SeasonalLinePlotResult(cols, data, value_col, my_start_month, years) ==
    LET call == [NoFig EXCEPT
                   !.fn = "seasonal_line_plot",
                   !.value_col = value_col,
                   !.my_start_month = my_start_month,
                   !.years_arg = years]
    IN
    IF "MY" \notin cols THEN [call EXCEPT !.err = "ValueError"]
    ELSE IF value_col \notin cols THEN [call EXCEPT !.err = "KeyError"]
    ELSE LET weekly == WeeklyTable(data, {value_col})
         IN  IF weekly = <<>> THEN [call EXCEPT !.err = "IndexError"]
             ELSE LET CMY == CurrentMY(weekly)
                      plot_years == PlotYears(weekly, CMY, years)
                      xmax == XMax(weekly)
                  IN  [call EXCEPT
                         !.weekly = weekly,
                         !.CMY = CMY,
                         !.drawn = plot_years,
                         !.lines = [k \in DOMAIN plot_years |->
                                      LineOf(weekly, plot_years[k], value_col)],
                         !.xmax = xmax,
                         !.xticks = XTicks(xmax),
                         !.xticklabels = XTickLabels(my_start_month, xmax)]

SeasonalLinePlot ==
    /\ pc = "loaded"
    /\ \E value_col \in ValueCols, my_start_month \in StartMonths, years \in YearsArgs :
         fig' = SeasonalLinePlotResult(columns, df, value_col, my_start_month, years)
    /\ pc' = "done"
    /\ UNCHANGED <<year, end_year, nframes, columns, df>>

---------------------------------------------------------------------------
(* seasonal_commitments_plot *)

\* the [-5:] of "Prior 5 MYs"
PriorYears == 5

\* prev_years = sorted([y for y in weekly["MY"].unique() if y < CMY])[-5:]
PrevYears(weekly, CMY) ==
    PyFrom(SortedInts({y \in Range(Col(weekly, "MY")) : y < CMY}), -PriorYears)

\* the stacked bars of the current MY: accumulated exports, outstanding
\* sales on top of them
BarsOf(weekly, CMY) ==
    LET cmy_df == RowsOfMY(weekly, CMY)
    IN  [MY |-> CMY,
         x |-> Col(cmy_df, "MktingWeek"),
         exports |-> [i \in DOMAIN cmy_df |-> Frac(cmy_df[i]["accumulatedExports"], 1)],
         outstanding |-> [i \in DOMAIN cmy_df |-> Frac(cmy_df[i]["outstandingSales"], 1)]]

\* one prior year's line: total = accumulatedExports + outstandingSales
TotalLineOf(weekly, y) ==
    LET d == RowsOfMY(weekly, y)
        total == [i \in DOMAIN d |->
                    Frac(d[i]["accumulatedExports"] + d[i]["outstandingSales"], 1)]
    IN  [MY |-> y,
         x |-> Col(d, "MktingWeek"),
         y |-> total,
         text_x |-> Frac(10 * SeqMax(Col(d, "MktingWeek")) + 3, 10),
         text_y |-> total[Len(total)]]

\* the figure seasonal_commitments_plot returns, or the exception it raises
SeasonalCommitmentsPlotResult(cols, data, wasde_export, my_start_month) ==
    LET call == [NoFig EXCEPT
                   !.fn = "seasonal_commitments_plot",
                   !.my_start_month = my_start_month,
                   !.hline = wasde_export]
    IN
    IF "MY" \notin cols THEN [call EXCEPT !.err = "ValueError"]
    ELSE LET weekly == WeeklyTable(data, {"accumulatedExports", "outstandingSales"})
         IN  IF weekly = <<>> THEN [call EXCEPT !.err = "IndexError"]
             ELSE LET CMY == CurrentMY(weekly)
                      prev_years == PrevYears(weekly, CMY)
                      xmax == XMax(weekly)
                  IN  [call EXCEPT
                         !.weekly = weekly,
                         !.CMY = CMY,
                         !.drawn = prev_years,
                         !.bars = <<BarsOf(weekly, CMY)>>,
                         !.lines = [k \in DOMAIN prev_years |->
                                      TotalLineOf(weekly, prev_years[k])],
                         !.xmax = xmax,
                         !.xticks = XTicks(xmax),
                         !.xticklabels = XTickLabels(my_start_month, xmax)]

SeasonalCommitmentsPlot ==
    /\ pc = "loaded"
    /\ \E wasde_export \in WasdeArgs, my_start_month \in StartMonths :
         fig' = SeasonalCommitmentsPlotResult(columns, df, wasde_export, my_start_month)
    /\ pc' = "done"
    /\ UNCHANGED <<year, end_year, nframes, columns, df>>

---------------------------------------------------------------------------
(* weeks_left_cmy *)

\* end_year = today.year if today.month < 8 else today.year + 1
MktEndYear(today) == IF today[2] < 8 THEN today[1] ELSE today[1] + 1

\* max(int(delta.days / 7), 0) with delta = datetime(end_year, 7, 31) - latest
WeeksLeft(today, latest_week_date) ==
    LET days == Ordinal(<<MktEndYear(today), 7, 31>>) - Ordinal(latest_week_date)
    IN  IF days > 0 THEN days \div 7 ELSE 0

\* the newest weekEndingDate of a frame with rows
FrameLatestDate(data) ==
    CHOOSE d \in {r["weekEndingDate"] : r \in Range(data)} :
      \A r \in Range(data) : DateLE(r["weekEndingDate"], d)

---------------------------------------------------------------------------
(* build_last_week *)

\* selected_date=None, and the NaT that .max() of an empty column gives
NoDate == <<0, 0, 0>>

\* cols of build_last_week
LastWeekCols ==
    {"weekEndingDate", "countryCode", "weeklyExports", "grossNewSales",
     "currentMYNetSales", "nextMYNetSales", "currentMYTotalCommitment",
     "accumulatedExports", "outstandingSales", "nextMYOutstandingSales"}

\* a cell of the countryDescription column of the Excel sheet: its text and
\* the blanks around it
Cell(text, blanks) == [text |-> text, blanks |-> blanks]

\* sheets pd.read_excel(country_codes_path) may hold: one row per code; a
\* code listed twice and another not listed; a single code
CountrySheets ==
    { << [countryCode |-> 1, countryDescription |-> Cell("CHINA, PEOPLES REPUBLIC OF", 1)],
         [countryCode |-> 2, countryDescription |-> Cell("KOREA, REPUBLIC OF", 0)],
         [countryCode |-> 3, countryDescription |-> Cell("JAPAN", 0)] >>,
      << [countryCode |-> 1, countryDescription |-> Cell("JAPAN", 0)],
         [countryCode |-> 1, countryDescription |-> Cell("JAPAN", 2)],
         [countryCode |-> 3, countryDescription |-> Cell("KOREA, REPUBLIC OF", 1)] >>,
      << [countryCode |-> 2, countryDescription |-> Cell("VIETNAM", 0)] >> }

\* selected_date arguments for a frame: None, each of its dates, and a date
\* it does not hold
SelectedDates(data) ==
    {NoDate, <<2020, 1, 5>>} \cup {data[i]["weekEndingDate"] : i \in DOMAIN data}

\* df = df_totals[cols].copy(); df["Cancel"] = grossNewSales - currentMYNetSales
WithCancel(data) ==
    [i \in DOMAIN data |->
       [c \in LastWeekCols \cup {"Cancel"} |->
          IF c = "Cancel"
          THEN data[i]["grossNewSales"] - data[i]["currentMYNetSales"]
          ELSE data[i][c]]]

\* df["weekEndingDate"].max(): NaT for a frame without rows
MaxDate(data) == IF data = <<>> THEN NoDate ELSE FrameLatestDate(data)

\* df[df["weekEndingDate"] == pd.to_datetime(selected_date)]
RowsOfWeek(data, selected_date) ==
    LET InWeek(r) == r["weekEndingDate"] = selected_date
    IN  SelectSeq(data, InWeek)

\* countries["countryDescription"].str.strip()
Strip(cell) == cell.text

\* the two renamings made after the merge
CleanName(name) ==
    IF name = "CHINA, PEOPLES REPUBLIC OF" THEN "CHINA"
    ELSE IF name = "KOREA, REPUBLIC OF" THEN "S. KOREA"
    ELSE name

\* the row `r` with its countryDescription column
Described(r, name) ==
    [c \in DOMAIN r \cup {"countryDescription"} |->
       IF c = "countryDescription" THEN name ELSE r[c]]

\* variant of MergeRow: an inner merge, a row without a description is dropped
MergeRowInner(r, countries) ==
    LET Same(k) == k.countryCode = r["countryCode"]
        hits == SelectSeq(countries, Same)
    IN  [k \in DOMAIN hits |-> Described(r, Strip(hits[k].countryDescription))]

\* the rows a left merge on countryCode makes of the row `r`: one per sheet
\* row of its code, in the sheet's order, or one with NaN if there is none
MergeRow(r, countries) ==
    LET Same(k) == k.countryCode = r["countryCode"]
        hits == SelectSeq(countries, Same)
    IN  IF hits = <<>> THEN <<Described(r, "NaN")>>
        ELSE [k \in DOMAIN hits |-> Described(r, Strip(hits[k].countryDescription))]

RECURSIVE MergeLeft(_, _)
\* last_week.merge(countries, on="countryCode", how="left")
MergeLeft(rows, countries) ==
    IF rows = <<>> THEN <<>>
    ELSE MergeRow(Head(rows), countries) \o MergeLeft(Tail(rows), countries)

\* the frame build_last_week returns
LastWeek(data, countries, selected_date) ==
    LET work == WithCancel(data)
        date == IF selected_date = NoDate THEN MaxDate(work) ELSE selected_date
        merged == MergeLeft(RowsOfWeek(work, date), countries)
    IN  [k \in DOMAIN merged |->
           [merged[k] EXCEPT !["countryDescription"] = CleanName(@)]]

\* df_totals as the call leaves it: the function works on a copy
InputAfterBuildLastWeek(data) == data

\* the result of build_last_week, or the exception it raises
BuildLastWeekResult(cols, data, countries, selected_date) ==
    LET call == [NoFig EXCEPT
                   !.fn = "build_last_week",
                   !.selected_date = selected_date,
                   !.countries = countries,
                   !.df_totals = data]
    IN  IF ~(LastWeekCols \subseteq cols) THEN [call EXCEPT !.err = "KeyError"]
        ELSE [call EXCEPT !.last_week = LastWeek(data, countries, selected_date)]

BuildLastWeek ==
    /\ pc = "loaded"
    /\ \E countries \in CountrySheets, selected_date \in SelectedDates(df) :
         fig' = BuildLastWeekResult(columns, df, countries, selected_date)
    /\ df' = InputAfterBuildLastWeek(df)
    /\ pc' = "done"
    /\ UNCHANGED <<year, end_year, nframes, columns>>

\* the selected_date the script passes: None for "Latest", else one of the
\* dates of the frame offered by the selectbox
ScriptDates(data) ==
    {NoDate} \cup {data[i]["weekEndingDate"] : i \in DOMAIN data}

\* the script's weeks_left_CMY: last_week = build_last_week(df, ..., selected_date),
\* latest_week_date = last_week["weekEndingDate"].iloc[0], weeks_left_cmy(it)
WeeksLeftCmyResult(cols, data, countries, selected_date, today) ==
    LET call == [NoFig EXCEPT
                   !.fn = "weeks_left_cmy",
                   !.today = today,
                   !.selected_date = selected_date]
        last_week == LastWeek(data, countries, selected_date)
    IN  IF ~(LastWeekCols \subseteq cols) THEN [call EXCEPT !.err = "KeyError"]
        ELSE IF last_week = <<>> THEN [call EXCEPT !.err = "IndexError"]
        ELSE [call EXCEPT
                !.latest_week_date = last_week[1]["weekEndingDate"],
                !.mkt_end_year = MktEndYear(today),
                !.weeks_left = WeeksLeft(today, last_week[1]["weekEndingDate"])]

WeeksLeftCmy ==
    /\ pc = "loaded"
    /\ \E countries \in CountrySheets, selected_date \in ScriptDates(df), today \in Todays :
         fig' = WeeksLeftCmyResult(columns, df, countries, selected_date, today)
    /\ pc' = "done"
    /\ UNCHANGED <<year, end_year, nframes, columns, df>>

---------------------------------------------------------------------------
(* The commodity configuration of the script and the WASDE export call *)

commodity_map ==
    "Cotton" :> 1404 @@ "Corn" :> 401 @@ "Soybeans" :> 801 @@
    "All Wheat" :> 107 @@ "Soybean Cake & Meal" :> 901 @@ "Soybean Oil" :> 902

\* the PSD codes are strings of digits: a code is the sequence of its digits
psd_map ==
    "Cotton" :> <<2, 6, 3, 1, 0, 0, 0>> @@ "Corn" :> <<0, 4, 4, 0, 0, 0, 0>> @@
    "Soybeans" :> <<2, 2, 2, 2, 0, 0, 0>> @@ "All Wheat" :> <<0, 4, 1, 0, 0, 0, 0>> @@
    "Soybean Meal" :> <<0, 8, 1, 3, 1, 0, 0>> @@ "Soybean Oil" :> <<4, 2, 3, 2, 0, 0, 0>>

my_start_month_map ==
    "Cotton" :> 8 @@ "Corn" :> 9 @@ "Soybeans" :> 9 @@ "All Wheat" :> 6 @@
    "Soybean Cake & Meal" :> 10 @@ "Soybean Oil" :> 10

\* the integer literals assigned at the top of usda_api.py, digit by digit
UsdaApiLiterals ==
    [PSD_COTTON |-> <<2, 6, 3, 1, 0, 0, 0>>,
     PSD_CORN |-> <<0, 4, 4, 0, 0, 0, 0>>,
     PSD_SOYBEANS |-> <<2, 2, 2, 2, 0, 0, 0>>,
     PSD_WHEAT |-> <<0, 4, 1, 0, 0, 0, 0>>,
     PSD_SOYMEAL |-> <<0, 8, 1, 3, 1, 0>>,
     EXPORTS_ID |-> <<8, 8>>]

\* Python 3 rejects a decimal literal that starts with 0 unless it is all 0s
DecimalLiteralOk(digits) ==
    digits[1] # 0 \/ \A i \in DOMAIN digits : digits[i] = 0

\* usda_api.py compiles, so that `from usda_api import ...` can succeed
UsdaApiCompiles ==
    \A name \in DOMAIN UsdaApiLiterals : DecimalLiteralOk(UsdaApiLiterals[name])

\* def get_wasde_export(api_key: str, year: int)
GetWasdeExportParams == <<"api_key", "year">>

\* the positional arguments of the call in the script
WasdeCallArgs == <<"API_KEY", "psd_map[commodity]", "wasde_year">>

\* the commodity code get_wasde_export puts in the URL it requests
QueriedPsd == UsdaApiLiterals.PSD_COTTON

\* what the script does with the selected commodity, in the order it runs:
\* the import of usda_api, psd_map[commodity], the call of get_wasde_export
\* and my_start_month_map[commodity]
ScriptConfigResult(commodity) ==
    LET call == [NoFig EXCEPT !.fn = "script", !.commodity = commodity]
    IN  IF ~UsdaApiCompiles THEN [call EXCEPT !.err = "SyntaxError"]
        ELSE IF commodity \notin DOMAIN psd_map THEN [call EXCEPT !.err = "KeyError"]
        ELSE IF Len(WasdeCallArgs) # Len(GetWasdeExportParams)
        THEN [call EXCEPT !.err = "TypeError"]
        ELSE IF commodity \notin DOMAIN my_start_month_map
        THEN [call EXCEPT !.err = "KeyError", !.psd_queried = QueriedPsd]
        ELSE [call EXCEPT !.psd_queried = QueriedPsd,
                          !.my_start_month = my_start_month_map[commodity]]

\* the user selects a commodity of the selectbox and the script runs on it
ScriptConfig ==
    /\ pc = "loaded"
    /\ \E commodity \in DOMAIN commodity_map :
         fig' = ScriptConfigResult(commodity)
    /\ pc' = "done"
    /\ UNCHANGED <<year, end_year, nframes, columns, df>>

---------------------------------------------------------------------------
(* The state machine *)

\* One run builds a frame, adds its Cancel column and makes one call on it
\* (no call changes the frame, so a later call sees what the first saw).  get_esr_exports is entered with an empty list of frames; a caller may
\* also hand the views a frame of its own, of which the zero-row frame is the
\* one get_esr_exports never returns
Init ==
    /\ columns \in ColumnSets
    /\ df = <<>>
    /\ nframes = 0
    /\ fig = NoFig
    /\ end_year \in EndYears
    /\ \/ pc = "fetch" /\ year \in StartYears
       \/ pc = "returned" /\ year = end_year + 1

Next ==
    \/ FetchYear
    \/ FetchHttpError
    \/ ConcatReturn
    \/ AddCancel
    \/ SeasonalLinePlot
    \/ SeasonalCommitmentsPlot
    \/ WeeksLeftCmy
    \/ BuildLastWeek
    \/ ScriptConfig

Spec == Init /\ [][Next]_vars

---------------------------------------------------------------------------
(* Properties of the seasonal views, stated on the input frame df *)

Views == {"seasonal_line_plot", "seasonal_commitments_plot"}

\* a seasonal view was called
ViewCalled == pc = "done" /\ fig.fn \in Views

\* a seasonal view returned its figure
ViewOk == ViewCalled /\ fig.err = "none"

\* marketing years present in the input frame (it has an MY column)
DfMYs == {df[i]["MY"] : i \in DOMAIN df}

\* distinct week-ending dates of marketing year y in the input frame
DfDates(y) == {df[i]["weekEndingDate"] : i \in {j \in DOMAIN df : df[j]["MY"] = y}}

\* the MYs on the figure: one per line, plus the MY of the bars
DrawnMYs ==
    {fig.lines[k].MY : k \in DOMAIN fig.lines} \cup {fig.bars[k].MY : k \in DOMAIN fig.bars}

\* the MY of the most recent date of the input frame (the smallest one if
\* the frame labels that date with several)
DataCMY ==
    LET latest == FrameLatestDate(df)
        at == {df[i]["MY"] : i \in {j \in DOMAIN df : df[j]["weekEndingDate"] = latest}}
    IN  CHOOSE y \in at : \A z \in at : y <= z

\* the n largest elements of S
Largest(S, n) == {y \in S : Cardinality({z \in S : z > y}) < n}

\* the lookback of the call: 5 for the commitments plot, `years` for the line plot
Lookback == IF fig.fn = "seasonal_commitments_plot" THEN PriorYears ELSE fig.years_arg

\* C1: for every MY of the input, the MktingWeek indices of its rows are
\* exactly 1..W, W the number of its distinct dates, without duplicates, and
\* a row's index is the ascending rank of its date inside its MY
C1_WeekIndices ==
    ViewOk =>
      /\ {fig.weekly[i]["MY"] : i \in DOMAIN fig.weekly} = DfMYs
      /\ \A y \in DfMYs :
           LET rows == {i \in DOMAIN fig.weekly : fig.weekly[i]["MY"] = y}
           IN  /\ {fig.weekly[i]["MktingWeek"] : i \in rows} = 1 .. Cardinality(DfDates(y))
               /\ Cardinality(rows) = Cardinality(DfDates(y))
               /\ \A i \in rows :
                    /\ fig.weekly[i]["weekEndingDate"] \in DfDates(y)
                    /\ fig.weekly[i]["MktingWeek"] =
                         1 + Cardinality({d \in DfDates(y) :
                                            DateLT(d, fig.weekly[i]["weekEndingDate"])})

\* a view ran on a frame in which some MY has two dates, given latest first,
\* beside rows of another MY
C1_Witness ==
    /\ ViewOk
    /\ Cardinality(DfMYs) >= 2
    /\ \E i, j \in DOMAIN df :
         /\ i < j
         /\ df[i]["MY"] = df[j]["MY"]
         /\ DateLT(df[j]["weekEndingDate"], df[i]["weekEndingDate"])
    /\ \E i \in DOMAIN fig.weekly : fig.weekly[i]["MktingWeek"] = 2

\* C2: the current marketing year is always the MY of the most recent
\* weekEndingDate of the data and never comes from the clock: the views' CMY
\* is that MY, and the marketing-year end weeks_left_cmy uses is the 31 July
\* that closes the marketing year of the frame's latest week
C2_CurrentMYFromData ==
    /\ ViewOk => fig.CMY = DataCMY
    /\ (pc = "done" /\ fig.fn = "weeks_left_cmy" /\ fig.err = "none") =>
         /\ fig.latest_week_date \in {df[i]["weekEndingDate"] : i \in DOMAIN df}
         /\ fig.mkt_end_year = MktEndYear(FrameLatestDate(df))

\* C3 as stated: the MYs drawn are CMY and the K largest MYs below CMY, with
\* K = 5 in the commitments plot and K = years in the line plot
C3_DrawnIsCMYPlusKPrior ==
    ViewOk =>
      DrawnMYs = {fig.CMY} \cup Largest({y \in DfMYs : y < fig.CMY}, Lookback)

\* C3 amended: the commitments plot draws CMY and the 5 largest MYs below it;
\* the line plot draws the `years` largest MYs up to and including CMY (CMY
\* and the years-1 largest below it) for years >= 1 and every MY up to CMY
\* for years = 0; CMY is the data's current MY, it is always drawn and no MY
\* above it is drawn
C3_DrawnYears ==
    ViewOk =>
      /\ fig.CMY = DataCMY
      /\ fig.CMY \in DrawnMYs
      /\ \A y \in DrawnMYs : y <= fig.CMY
      /\ DrawnMYs =
           IF fig.fn = "seasonal_commitments_plot"
           THEN {fig.CMY} \cup Largest({y \in DfMYs : y < fig.CMY}, PriorYears)
           ELSE IF fig.years_arg = 0
           THEN {y \in DfMYs : y <= fig.CMY}
           ELSE Largest({y \in DfMYs : y <= fig.CMY}, fig.years_arg)

\* the commitments plot ran on a frame with more than 5 MYs below CMY and an
\* MY above CMY
C3_Witness ==
    /\ ViewOk
    /\ fig.fn = "seasonal_commitments_plot"
    /\ Cardinality({y \in DfMYs : y < fig.CMY}) > PriorYears
    /\ \E y \in DfMYs : y > fig.CMY
    /\ Cardinality(DrawnMYs) = PriorYears + 1

\* C4 as stated: with more than N MYs up to and including CMY, a lookback of
\* N >= 1 draws exactly the N most recent MYs counting the current one, for
\* the line plot's years = N and for the commitments plot's N = 5 alike
C4_NMostRecentCountingCurrent ==
    (ViewOk /\ Lookback >= 1
       /\ Cardinality({y \in DfMYs : y <= fig.CMY}) > Lookback) =>
      /\ DrawnMYs = Largest({y \in DfMYs : y <= fig.CMY}, Lookback)
      /\ Cardinality(DrawnMYs) = Lookback

\* C4 amended: with more than N MYs up to and including CMY the line plot
\* with years = N >= 1 draws exactly the N most recent MYs counting the
\* current one; the commitments plot draws the current MY and the 5 before
\* it, the 6 most recent counting the current one, so it drops a year only
\* when more than 6 are present
C4_WindowSizes ==
    /\ (ViewOk /\ fig.fn = "seasonal_line_plot" /\ fig.years_arg >= 1
          /\ Cardinality({y \in DfMYs : y <= fig.CMY}) > fig.years_arg) =>
         /\ DrawnMYs = Largest({y \in DfMYs : y <= fig.CMY}, fig.years_arg)
         /\ Cardinality(DrawnMYs) = fig.years_arg
    /\ (ViewOk /\ fig.fn = "seasonal_commitments_plot"
          /\ Cardinality({y \in DfMYs : y <= fig.CMY}) > PriorYears) =>
         /\ DrawnMYs = Largest({y \in DfMYs : y <= fig.CMY}, PriorYears + 1)
         /\ Cardinality(DrawnMYs) = PriorYears + 1

\* the line plot ran with years = 5 on MYs 2021..2026, current MY 2026, and
\* drew 2022..2026
C4_Witness ==
    /\ ViewOk
    /\ fig.fn = "seasonal_line_plot"
    /\ fig.years_arg = 5
    /\ DfMYs = 2021 .. 2026
    /\ fig.CMY = 2026
    /\ DrawnMYs = 2022 .. 2026

\* month-only rule of the marketing year of a date
MYRule(date, start_month) == IF date[2] >= start_month THEN date[1] + 1 ELSE date[1]

\* every row of the frame is labelled by the month-only rule
LabelledByRule(start_month) ==
    /\ "MY" \in columns
    /\ \A i \in DOMAIN df : df[i]["MY"] = MYRule(df[i]["weekEndingDate"], start_month)

\* C5: the frame get_esr_exports returns, and every frame a seasonal view
\* consumes, carries an MY label per row that follows from the row's
\* weekEndingDate and the fiscal start month by the month-only rule
C5_MYFromDate ==
    /\ (pc = "returned" /\ fig.fn = "get_esr_exports") =>
         \E m \in 1 .. 12 : LabelledByRule(m)
    /\ (ViewCalled /\ df # <<>> /\ fig.my_start_month \in 1 .. 12) =>
         LabelledByRule(fig.my_start_month)

RECURSIVE SumIdx(_, _)
\* the sum of column c over the rows of the input frame with indices I
SumIdx(I, c) ==
    IF I = {} THEN 0
    ELSE LET i == CHOOSE j \in I : TRUE
         IN  df[i][c] + SumIdx(I \ {i}, c)

\* the input rows of (MY, date)
DfGroup(y, d) == {i \in DOMAIN df : df[i]["MY"] = y /\ df[i]["weekEndingDate"] = d}

\* the value columns a view aggregates
ValueColumns ==
    IF fig.fn = "seasonal_line_plot" THEN {fig.value_col}
    ELSE {"accumulatedExports", "outstandingSales"}

RECURSIVE SeqSum(_)
\* the sum of a sequence of numbers
SeqSum(q) == IF q = <<>> THEN 0 ELSE Head(q) + SeqSum(Tail(q))

\* C6: the weekly table has exactly one row per (MY, weekEndingDate) of the
\* input, its measures are the sums over the input rows collapsed into it,
\* the total of each measure is preserved, and within each MY no week index
\* is repeated or skipped: the indices are exactly 1..W, W the number of
\* distinct dates of the MY in the input
C6_GroupsSummed ==
    ViewOk =>
      /\ \A y \in DfMYs : \A d \in DfDates(y) :
           \E i \in DOMAIN fig.weekly :
             /\ fig.weekly[i]["MY"] = y /\ fig.weekly[i]["weekEndingDate"] = d
             /\ \A j \in DOMAIN fig.weekly :
                  (fig.weekly[j]["MY"] = y /\ fig.weekly[j]["weekEndingDate"] = d) => j = i
      /\ \A i \in DOMAIN fig.weekly :
           /\ DfGroup(fig.weekly[i]["MY"], fig.weekly[i]["weekEndingDate"]) # {}
           /\ \A c \in ValueColumns :
                fig.weekly[i][c] =
                  SumIdx(DfGroup(fig.weekly[i]["MY"], fig.weekly[i]["weekEndingDate"]), c)
      /\ \A c \in ValueColumns :
           SeqSum(Col(fig.weekly, c)) = SumIdx(DOMAIN df, c)
      /\ \A i, j \in DOMAIN fig.weekly :
           (i # j /\ fig.weekly[i]["MY"] = fig.weekly[j]["MY"]) =>
             fig.weekly[i]["MktingWeek"] # fig.weekly[j]["MktingWeek"]
      /\ \A y \in DfMYs :
           {fig.weekly[i]["MktingWeek"] : i \in {j \in DOMAIN fig.weekly : fig.weekly[j]["MY"] = y}}
             = 1 .. Cardinality(DfDates(y))

\* a view ran on a frame where two rows share (MY, weekEndingDate) and the
\* same MY has a second date
C6_Witness ==
    /\ ViewOk
    /\ \E i, j \in DOMAIN df :
         /\ i # j
         /\ df[i]["MY"] = df[j]["MY"]
         /\ df[i]["weekEndingDate"] = df[j]["weekEndingDate"]
         /\ Cardinality(DfDates(df[i]["MY"])) = 2
    /\ Len(fig.weekly) < Len(df)

\* the call's arguments name columns of the frame
ColumnsPresent ==
    /\ "MY" \in columns
    /\ fig.fn = "seasonal_line_plot" => fig.value_col \in columns

\* C7: on data with fewer than `lookback` MYs before the current one, a view
\* raises nothing and draws the current MY and exactly the prior MYs present
\* (none made up); with a single MY present it draws only that MY
C7_FewerPriorYears ==
    (ViewCalled /\ ColumnsPresent /\ df # <<>>
       /\ Cardinality({y \in DfMYs : y < DataCMY}) < Lookback) =>
      /\ fig.err = "none"
      /\ DrawnMYs = {DataCMY} \cup {y \in DfMYs : y < DataCMY}
      /\ DrawnMYs \subseteq DfMYs
      /\ Cardinality(DfMYs) = 1 => DrawnMYs = DfMYs

\* the line plot ran with years = 5 on a frame holding one MY
C7_Witness ==
    /\ ViewOk
    /\ fig.fn = "seasonal_line_plot"
    /\ fig.years_arg = 5
    /\ Cardinality(DfMYs) = 1
    /\ DrawnMYs = DfMYs

\* C8: a configuration error is raised to the caller: a frame without an MY
\* column, a value_col that is no column of the frame, and a my_start_month
\* outside 1..12 each end the call with an exception
C8_ConfigErrorsFailFast ==
    ViewCalled =>
      /\ "MY" \notin columns => fig.err # "none"
      /\ (fig.fn = "seasonal_line_plot" /\ fig.value_col \notin columns) => fig.err # "none"
      /\ fig.my_start_month \notin 1 .. 12 => fig.err # "none"

\* C9: a frame with zero rows is no error: the view returns, with nothing drawn
C9_EmptyFrameNoError ==
    (ViewCalled /\ ColumnsPresent /\ df = <<>>) =>
      /\ fig.err = "none"
      /\ fig.lines = <<>>
      /\ fig.bars = <<>>

\* the date of rank i (1 = earliest) among the input dates of marketing year y
DateOfRank(y, i) ==
    CHOOSE d \in DfDates(y) : Cardinality({e \in DfDates(y) : DateLT(e, d)}) = i - 1

\* the summed input measure the figure shows for (y, d)
RawValue(y, d) ==
    IF fig.fn = "seasonal_line_plot" THEN SumIdx(DfGroup(y, d), fig.value_col)
    ELSE SumIdx(DfGroup(y, d), "accumulatedExports") + SumIdx(DfGroup(y, d), "outstandingSales")

\* the plotted fraction q equals v / scale
PlotsAs(q, v, scale) == q.den # 0 /\ q.num * scale = v * q.den

\* every line has one point per date of its MY, weeks 1, 2, ... in order,
\* each value the summed input measure divided by `scale`
LinesShow(scale) ==
    \A k \in DOMAIN fig.lines :
      LET line == fig.lines[k]
      IN  /\ Len(line.x) = Cardinality(DfDates(line.MY))
          /\ Len(line.y) = Len(line.x)
          /\ \A i \in DOMAIN line.x :
               /\ line.x[i] = i
               /\ PlotsAs(line.y[i], RawValue(line.MY, DateOfRank(line.MY, i)), scale)

\* the bars of the current MY show the raw summed columns, week by week
BarsShowRaw ==
    \A k \in DOMAIN fig.bars :
      LET bar == fig.bars[k]
      IN  /\ Len(bar.x) = Cardinality(DfDates(bar.MY))
          /\ \A i \in DOMAIN bar.x :
               /\ bar.x[i] = i
               /\ PlotsAs(bar.exports[i],
                          SumIdx(DfGroup(bar.MY, DateOfRank(bar.MY, i)), "accumulatedExports"), 1)
               /\ PlotsAs(bar.outstanding[i],
                          SumIdx(DfGroup(bar.MY, DateOfRank(bar.MY, i)), "outstandingSales"), 1)

\* C10 as stated: every series of both views is in ascending week order and
\* carries the raw summed values, never divided by a display factor
C10_RawValuesPlotted ==
    ViewOk => LinesShow(1) /\ BarsShowRaw

\* C10 amended: every series is in ascending week order; the commitments
\* plot draws raw sums (the bars, and accumulatedExports + outstandingSales
\* on the prior-year lines); the line plot draws the summed value_col
\* divided by 1,000
C10_PlottedValues ==
    ViewOk =>
      IF fig.fn = "seasonal_line_plot"
      THEN LinesShow(1000)
      ELSE LinesShow(1) /\ BarsShowRaw

\* the line plot drew a line of two weeks whose second value sums two input rows
C10_Witness ==
    /\ ViewOk
    /\ fig.fn = "seasonal_line_plot"
    /\ \E k \in DOMAIN fig.lines :
         /\ Len(fig.lines[k].x) = 2
         /\ fig.lines[k].y[2].num > 0
         /\ Cardinality(DfGroup(fig.lines[k].MY, DateOfRank(fig.lines[k].MY, 2))) = 2


---------------------------------------------------------------------------
(* build_last_week: the rows of one week *)

LastWeekOk == pc = "done" /\ fig.fn = "build_last_week" /\ fig.err = "none"

\* the dates of the frame passed to the call
InputDates == {fig.df_totals[i]["weekEndingDate"] : i \in DOMAIN fig.df_totals}

\* the week asked for: selected_date, or the latest date of the input
TargetDate ==
    IF fig.selected_date # NoDate THEN fig.selected_date
    ELSE IF InputDates = {} THEN NoDate
    ELSE CHOOSE d \in InputDates : \A e \in InputDates : DateLE(e, d)

\* the input rows of that week
WeekIdx == {i \in DOMAIN fig.df_totals : fig.df_totals[i]["weekEndingDate"] = TargetDate}

\* the rows of the country sheet with the code of input row i
SheetIdx(i) ==
    {k \in DOMAIN fig.countries :
       fig.countries[k].countryCode = fig.df_totals[i]["countryCode"]}

\* the returned rows that carry the values of input row i
OutOf(i) ==
    {k \in DOMAIN fig.last_week :
       \A c \in LastWeekCols : fig.last_week[k][c] = fig.df_totals[i][c]}

\* every returned row is of the week asked for, comes from an input row of
\* that week and has Cancel = grossNewSales - currentMYNetSales
RowsOfTargetWeek ==
    \A k \in DOMAIN fig.last_week :
       /\ fig.last_week[k]["weekEndingDate"] = TargetDate
       /\ \E i \in WeekIdx : k \in OutOf(i)
       /\ fig.last_week[k]["Cancel"] =
            fig.last_week[k]["grossNewSales"] - fig.last_week[k]["currentMYNetSales"]

\* C11 as stated: every returned row has the date asked for (selected_date,
\* or the latest date of the input when selected_date is None), each input row
\* of that week is returned exactly once, each returned row has
\* Cancel = grossNewSales - currentMYNetSales, and df_totals is unchanged
C11_OneRowPerWeekRow ==
    LastWeekOk =>
       /\ RowsOfTargetWeek
       /\ \A i \in WeekIdx : Cardinality(OutOf(i)) = 1
       /\ Len(fig.last_week) = Cardinality(WeekIdx)
       /\ df = fig.df_totals

\* C11 amended: every returned row has the date asked for and
\* Cancel = grossNewSales - currentMYNetSales; an input row of that week is
\* returned once for each row of the country sheet with its countryCode, with
\* that row's stripped and renamed description, and once with a missing
\* description when the sheet has no such row; df_totals is unchanged
C11_RowsPerSheetRow ==
    LastWeekOk =>
       /\ RowsOfTargetWeek
       /\ \A i \in WeekIdx :
            /\ Cardinality(OutOf(i)) = Max2(1, Cardinality(SheetIdx(i)))
            /\ \A k \in OutOf(i) :
                 IF SheetIdx(i) = {}
                 THEN fig.last_week[k]["countryDescription"] = "NaN"
                 ELSE \E j \in SheetIdx(i) :
                        fig.last_week[k]["countryDescription"] =
                          CleanName(fig.countries[j].countryDescription.text)
       /\ df = fig.df_totals

\* build_last_week returned a week of two or more input rows, one of a code
\* the sheet lists twice and one of a code the sheet does not list, with
\* selected_date=None
C11_Witness ==
    /\ LastWeekOk
    /\ fig.selected_date = NoDate
    /\ Cardinality(WeekIdx) >= 2
    /\ \E i \in WeekIdx : Cardinality(SheetIdx(i)) = 2
    /\ \E i \in WeekIdx : SheetIdx(i) = {}
    /\ Len(fig.last_week) > Cardinality(WeekIdx)


---------------------------------------------------------------------------
(* The commodity configuration *)

ScriptRan == pc = "done" /\ fig.fn = "script"

\* C12: for the commodity selected, my_start_month_map has an entry in 1..12
\* and psd_map has an entry, the script raises no error on the configuration
\* lookups and the WASDE call, and the PSD code queried is psd_map[commodity]
C12_ConfigComplete ==
    ScriptRan =>
       /\ fig.commodity \in DOMAIN my_start_month_map
       /\ my_start_month_map[fig.commodity] \in 1..12
       /\ fig.commodity \in DOMAIN psd_map
       /\ fig.err = "none"
       /\ fig.psd_queried = psd_map[fig.commodity]

====
